---------------------------- MODULE Spec2Model ----------------------------
(***************************************************************************)
(* Retty: reactor + per-connection handler pipelines.                      *)
(*                                                                         *)
(* Spec      : acceptor thread, worker event loops, idle scanner, peers    *)
(*             and user handlers, threads running at arbitrary speeds.     *)
(*             The clock is kept as the two differences the program        *)
(*             computes from it: now - last_read_time per connection, and  *)
(*             the time left of the scanner's sleep / timed receive.       *)
(* SpecTimed : the same threads against a clock that ticks in seconds: a   *)
(*             thread computes in zero time and time passes only while     *)
(*             every thread is blocked in a poll, a sleep or a receive.    *)
(* SpecPipe  : construction of one connection's inbound and outbound       *)
(*             pipelines and the traversal of a read and of a write.       *)
(* SpecCodec : FirstIntegerLengthFieldDecoder fed a framed byte stream in  *)
(*             arbitrary chunks.                                           *)
(* SpecGroup : EventLoopGroup::next called repeatedly on groups of every   *)
(*             size up to MaxLoops.                                        *)
(* SpecStop  : acceptor and workers with Bootstrap::terminate and with     *)
(*             handlers that call EventLoop::schedule_delayed.             *)
(* SpecSweep : the idle scanner against a registry of IdleConns idle       *)
(*             connections, with the acceptor and Bootstrap::terminate.    *)
(***************************************************************************)
EXTENDS Integers, Sequences, FiniteSets, TLC

(* ------------------------------ bounds -------------------------------- *)
\* longest handler list a factory returns
MaxHandlers == 3
\* frames the peer sends to the decoder
MaxFrames == 2
\* largest EventLoopGroup
MaxLoops == 4
\* number of connections the peers open (ids 1..MaxConns)
MaxConns == 2
\* socket events (data, close, reset) the peers produce, all connections together
MaxSockEvents == 2
\* writes the user handlers issue, all connections together
MaxWrites == 1
\* worker_group(n): number of worker event loops
NWorkers == 2
\* opt_read_idle_timeout_ms(ms), in seconds
ReadIdleTimeoutS == 1
\* calls of schedule_delayed the handlers make, all connections together
MaxTasks == 1
\* connections in the registry that have all gone idle (SpecSweep)
IdleConns == 46

(* ------------------------- program constants -------------------------- *)
\* ch_id starts at 1
FirstChId == 1
\* default(Duration::from_millis(5000)), in seconds
RecvTimeoutS == 5
\* thread::sleep(Duration::from_millis(1000)), in seconds
SweepSleepS == 1
\* bounded::<Token>(1024)
QueueCap == 1024
\* boss_group: EventLoopGroup::new(2)
BossLoops == 2

Conns == FirstChId .. (FirstChId + MaxConns - 1)
Workers == 0 .. (NWorkers - 1)
\* thread ids: the workers, then the acceptor (boss) and the idle scanner
AccT == NWorkers
ScanT == NWorkers + 1
Threads == 0 .. ScanT
NoConn == FirstChId - 1
NoLoop == 0 - 1
\* Option::None of a context link (next_ctx, head_ctx)
NoCtx == 0
\* differences now - last_read_time above this are not told apart
AgeCap == ReadIdleTimeoutS + 3

VARIABLES
    pending,            \* connections waiting in the listener backlog
    opened,             \* connections the peers have opened so far
    listener_ready,     \* readiness event of Token(0) in the boss selector
    apc,                \* acceptor position
    ch_id,              \* acceptor's next connection id
    event_loop,         \* worker index the acceptor chose
    bootstrap_stopped,  \* Bootstrap.stopped
    stopped,            \* EventLoop.stopped, per worker
    sock,               \* per connection: what the next read_to_end finds
    sock_events,        \* peer events produced so far
    registered,         \* per connection: registered with its loop's selector
    ready,              \* per worker: tokens with an undelivered readiness event
    events,             \* per worker: tokens of the poll being iterated
    wpc,                \* per worker: position
    wcur,               \* per worker: (ch.clone(), buf, err) of the event at hand
    channel_map,        \* per worker: ids in EventLoop.channel_map
    channel_inbound_handler_ctx_pipe_map, \* per worker: ids with a pipeline
    closed,             \* per connection: Channel.closed behind the Arc<Mutex<Channel>>
    close_called,       \* observer: a handler of the connection has called close()
    channel_container,  \* ids in the connection registry
    spc,                \* scanner position
    queue,              \* scanner's internal bounded channel
    skey,               \* id the scanner dequeued
    sleep_left,         \* seconds left of the scanner's sleep / timed receive
    since_read,         \* per connection: now - last_read_time, in seconds
    incb,               \* per thread: connection whose callbacks it is inside
    cbev,               \* per thread: the head event it is delivering
    head_order,         \* per connection: where its head events stand in
                        \*   active (read | exception)* inactive
    timeouts,           \* observer: TimedOut exceptions fired at the
                        \*   connection's head so far
    sock_out,           \* per connection: writes that reached the stream
    user_writes,        \* writes the user handlers issued so far
    in_factory_calls,   \* invocations of the inbound factory
    out_factory_calls,  \* invocations of the outbound factory
    pipes,              \* per connection: factory invocations its pipelines hold,
                        \*   Channel.eventloop and its contexts' eventloop
    in_handlers,        \* ChannelInboundHandlerPipe.handlers the factory returned
    out_handlers,       \* ChannelOutboundHandlerPipe.handlers the factory returned
    in_ctx_pipe,        \* inbound channel_handler_ctx_pipe: contexts with their links
    out_ctx_pipe,       \* outbound channel_handler_ctx_pipe
    in_at,              \* inbound context whose handler is running its channel_read
    in_calls,           \* handlers the read at hand has been delivered to, in order
    in_stopped,         \* a handler returned from the read without forwarding it
    out_at,             \* outbound context whose handler is running its channel_write
    out_calls,          \* handlers the write at hand has been delivered to, in order
    out_stopped,        \* a handler returned from the write without forwarding it
    out_issuer,         \* inbound context that issued the write at hand
    frames,             \* payloads p_1..p_n the peer sends, each behind its len32
    fed,                \* bytes of the stream passed to the decoder so far
    all_buf,            \* FirstIntegerLengthFieldDecoder.all_buf
    delivered,          \* downstream channel_read calls of the decoder, in order
    last_fires,         \* downstream calls made by the latest channel_read
    panicked,           \* the downstream handler read past the writer index
    groups,             \* per EventLoopGroup: evenetloop_num, next, and what the
                        \*   calls of next() so far have returned
    scheduled,          \* calls of schedule_delayed made so far
    in_sleep,           \* per thread: the loop whose schedule_delayed it sleeps in
    excutor             \* per worker: tasks spawned on EventLoop.excutor besides
                        \*   the reactor's closure, waiting and run

envVars == <<pending, opened, listener_ready, sock, sock_events>>
accVars == <<apc, ch_id, event_loop>>
stopVars == <<bootstrap_stopped, stopped>>
selVars == <<registered, ready>>
workVars == <<events, wpc, wcur>>
mapVars == <<channel_map, channel_inbound_handler_ctx_pipe_map>>
chanVars == <<closed, close_called>>
scanVars == <<channel_container, spc, queue, skey, sleep_left>>
cbVars == <<since_read, incb, cbev, head_order, timeouts, sock_out,
           user_writes>>
pipeVars == <<in_factory_calls, out_factory_calls, pipes>>

chainVars == <<in_handlers, out_handlers, in_ctx_pipe, out_ctx_pipe, in_at,
               in_calls, in_stopped, out_at, out_calls, out_stopped, out_issuer>>
codecVars == <<frames, fed, all_buf, delivered, last_fires, panicked>>
\* what the reactor's steps leave alone unless the program is being terminated
groupVars == <<groups>>
schedVars == <<scheduled, in_sleep, excutor>>
restVars == <<stopVars, schedVars, chainVars, codecVars, groupVars>>
reactorVars == <<envVars, accVars, stopVars, schedVars, selVars, workVars,
                 mapVars, chanVars, scanVars, cbVars, pipeVars>>

vars == <<reactorVars, chainVars, codecVars, groupVars>>

(* ------------------------------ helpers ------------------------------- *)
\* every enumeration of a finite set, as the orders a HashMap iteration can take
Orders(S) ==
    {s \in [1 .. Cardinality(S) -> S] : \A i, j \in DOMAIN s : i # j => s[i] # s[j]}

NoCur == [c |-> NoConn, closed |-> FALSE, nonempty |-> FALSE, err |-> "none"]

\* Channel::read = stream.read_to_end on the non-blocking socket: the result,
\* whether buf received bytes, and what the socket holds afterwards
ChannelRead(s) ==
    CASE s = "eof" -> [res |-> "Ok0", nonempty |-> FALSE, after |-> "eof"]
      [] s = "dataeof" -> [res |-> "OkN", nonempty |-> TRUE, after |-> "eof"]
      [] s = "data" -> [res |-> "WouldBlock", nonempty |-> TRUE, after |-> "idle"]
      [] s = "err" -> [res |-> "ConnectionReset", nonempty |-> FALSE, after |-> "eof"]
      [] OTHER -> [res |-> "WouldBlock", nonempty |-> FALSE, after |-> "idle"]

\* the match on ch.read(): only an error other than WouldBlock is kept
ChRetKeepsWouldBlock(res) ==
    IF res \in {"Ok0", "OkN"} THEN "none" ELSE res

ChRet(res) ==
    IF res \in {"Ok0", "OkN", "WouldBlock"} THEN "none" ELSE res

\* impl Clone for Channel: the closed flag of the clone
CloneClosed(flag) ==
    FALSE

\* the event the worker fires for the tuple (ch.clone(), buf, err)
FiredEventReadsOnErr(cur) ==
    IF cur.closed THEN "inactive" ELSE "read"

FiredEvent(cur) ==
    IF cur.closed THEN "inactive"
    ELSE IF cur.err # "none" THEN "exception" ELSE "read"

\* Channel::write_bytebuf: whether the bytes go to the stream
WriteBytebufWrites(c) ==
    TRUE

\* the head context's mutex (and its handler's): free when no thread is inside
HeadCtxNoLock(c) ==
    TRUE

HeadCtxUnlocked(c) ==
    \A t \in Threads : incb[t] # c

\* the registry mutex: the scanner keeps the guard from the remove to the end of
\* the firing
RegistryLocked ==
    spc \in {"send_blocked", "fire", "in_exception"}

\* EventLoop::attach after the selector registration, as successive positions
AttachNext(p) ==
    CASE p = "register" -> "active"
      [] p = "in_active" -> "put_pipe"
      [] p = "put_pipe" -> "put_channel"
      [] OTHER -> "session"

\* a factory invocation returns fresh handler instances, named by its number
FactoryShared(n) ==
    1

FactoryCall(n) ==
    n + 1

\* the automaton of active (read | exception)* inactive, one head event on
HeadOrder(st, ev) ==
    CASE st = "start" /\ ev = "active" -> "active"
      [] st = "active" /\ ev \in {"read", "exception", "timedout"} -> "active"
      [] st = "active" /\ ev = "inactive" -> "inactive"
      [] OTHER -> "error"

\* a thread enters the head handler's callback ev of connection c
Deliver(t, c, ev) ==
    /\ incb' = [incb EXCEPT ![t] = c]
    /\ cbev' = [cbev EXCEPT ![t] = ev]
    /\ head_order' = [head_order EXCEPT ![c] = HeadOrder(@, ev)]
    /\ timeouts' = IF ev = "timedout"
                   THEN [timeouts EXCEPT ![c] = @ + 1]
                   ELSE timeouts

\* the callback returns; a thread inside schedule_delayed has not returned
Return(t) ==
    /\ in_sleep[t] = NoLoop
    /\ incb' = [incb EXCEPT ![t] = NoConn]
    /\ cbev' = [cbev EXCEPT ![t] = "none"]
    /\ UNCHANGED <<head_order, timeouts>>

\* `while !stopped` of the acceptor, with the event_loop it picks
AccLoopHeadStale(id) ==
    IF bootstrap_stopped
    THEN apc' = "exit" /\ UNCHANGED event_loop
    ELSE apc' = "poll" /\ UNCHANGED event_loop

AccLoopHead(id) ==
    IF bootstrap_stopped
    THEN apc' = "exit" /\ UNCHANGED event_loop
    ELSE apc' = "poll" /\ event_loop' = id % NWorkers

\* `while !stopped` of a worker
WorkerLoopHead(w) ==
    IF stopped[w] THEN "exit" ELSE "poll"

\* Bootstrap::incr_id below usize::MAX
IncrId(id) ==
    id + 1

Notify(c) ==
    IF registered[c] # NoLoop
    THEN ready' = [ready EXCEPT ![registered[c]] = @ \cup {c}]
    ELSE UNCHANGED ready

(* -------------------------------- Init -------------------------------- *)
ReactorInit ==
    /\ pending = 0
    /\ opened = 0
    /\ listener_ready = FALSE
    /\ apc = "poll"
    /\ ch_id = FirstChId
    /\ event_loop = FirstChId % NWorkers
    /\ bootstrap_stopped = FALSE
    /\ stopped = [w \in Workers |-> FALSE]
    /\ sock = [c \in Conns |-> "none"]
    /\ sock_events = 0
    /\ registered = [c \in Conns |-> NoLoop]
    /\ ready = [w \in Workers |-> {}]
    /\ events = [w \in Workers |-> {}]
    /\ wpc = [w \in Workers |-> "poll"]
    /\ wcur = [w \in Workers |-> NoCur]
    /\ channel_map = [w \in Workers |-> {}]
    /\ channel_inbound_handler_ctx_pipe_map = [w \in Workers |-> {}]
    /\ closed = [c \in Conns |-> FALSE]
    /\ close_called = [c \in Conns |-> FALSE]
    /\ channel_container = {}
    /\ spc = "pause"
    /\ queue = <<>>
    /\ skey = NoConn
    /\ sleep_left = 0
    /\ since_read = [c \in Conns |-> 0]
    /\ incb = [t \in Threads |-> NoConn]
    /\ cbev = [t \in Threads |-> "none"]
    /\ head_order = [c \in Conns |-> "start"]
    /\ timeouts = [c \in Conns |-> 0]
    /\ sock_out = [c \in Conns |-> 0]
    /\ user_writes = 0
    /\ in_factory_calls = 0
    /\ out_factory_calls = 0
    /\ pipes = [c \in Conns |-> [inb |-> 0, outb |-> 0,
                                  ch_eventloop |-> NoLoop,
                                  ctx_eventloop |-> NoLoop]]
    /\ scheduled = 0
    /\ in_sleep = [t \in Threads |-> NoLoop]
    /\ excutor = [w \in Workers |-> [jobs |-> 0, ran |-> 0]]

\* no pipeline under construction or traversal
ChainIdle ==
    /\ in_handlers = <<>>
    /\ out_handlers = <<>>
    /\ in_ctx_pipe = <<>>
    /\ out_ctx_pipe = <<>>
    /\ in_at = NoCtx
    /\ in_calls = <<>>
    /\ in_stopped = FALSE
    /\ out_at = NoCtx
    /\ out_calls = <<>>
    /\ out_stopped = FALSE
    /\ out_issuer = NoCtx

\* a decoder that has been given nothing
CodecIdle ==
    /\ frames = <<>>
    /\ fed = 0
    /\ all_buf = <<>>
    /\ delivered = <<>>
    /\ last_fires = 0
    /\ panicked = FALSE

\* EventLoopGroup::new(n): no loop handed out yet
EventLoopGroupNew(n) ==
    [evenetloop_num |-> n, next |-> 0, calls |-> 0, ret |-> NoLoop,
     failed |-> FALSE]

\* the groups a Bootstrap holds
GroupIds == {"boss_group", "worker_group"}

\* Bootstrap::new_server_bootstrap with worker_group(NWorkers)
GroupIdle ==
    groups = [g \in GroupIds |->
                 EventLoopGroupNew(IF g = "boss_group" THEN BossLoops ELSE NWorkers)]

Init ==
    /\ ReactorInit
    /\ ChainIdle
    /\ CodecIdle
    /\ GroupIdle

(* ------------------------------- peers -------------------------------- *)
Connect ==
    /\ opened < MaxConns
    /\ opened' = opened + 1
    /\ pending' = pending + 1
    /\ listener_ready' = TRUE
    /\ UNCHANGED <<sock, sock_events, accVars, restVars,
                   selVars, workVars, mapVars, chanVars, scanVars, cbVars, pipeVars>>

PeerEvent(c, to) ==
    /\ sock[c] \in {"idle", "data"}
    /\ sock_events < MaxSockEvents
    /\ sock' = [sock EXCEPT ![c] = to]
    /\ sock_events' = sock_events + 1
    /\ Notify(c)
    /\ UNCHANGED <<pending, opened, listener_ready, accVars,
                   restVars, registered, workVars, mapVars, chanVars, scanVars,
                   cbVars, pipeVars>>

PeerSend(c) ==
    PeerEvent(c, "data")

PeerClose(c) ==
    PeerEvent(c, IF sock[c] = "data" THEN "dataeof" ELSE "eof")

PeerReset(c) ==
    PeerEvent(c, "err")

(* ------------------- acceptor (Bootstrap::start, boss) ----------------- *)
\* sel.poll(.., 200 ms) returns the listener's event
AccPoll ==
    /\ apc = "poll"
    /\ listener_ready
    /\ listener_ready' = FALSE
    /\ apc' = "accept"
    /\ UNCHANGED <<pending, opened, sock, sock_events,
                   ch_id, event_loop, restVars, selVars, workVars, mapVars,
                   chanVars, scanVars, cbVars, pipeVars>>

\* sel.poll times out with no event: the empty for loop, then the loop head again
AccPollTimeout ==
    /\ apc = "poll"
    /\ ~listener_ready
    /\ AccLoopHead(ch_id)
    /\ UNCHANGED <<envVars, ch_id, restVars, selVars,
                   workVars, mapVars, chanVars, scanVars, cbVars, pipeVars>>

\* the body of `for _e in events.iter()`, run once for the listener's one event:
\* accept, Channel::create, both create_channel_*_ctx_pipe
AccAccept ==
    /\ apc = "accept"
    /\ IF pending > 0
       THEN /\ pending' = pending - 1
            /\ sock' = [sock EXCEPT ![ch_id] = "idle"]
            /\ out_factory_calls' = FactoryCall(out_factory_calls)
            /\ in_factory_calls' = FactoryCall(in_factory_calls)
            /\ pipes' = [pipes EXCEPT ![ch_id] =
                           [inb |-> FactoryCall(in_factory_calls),
                            outb |-> FactoryCall(out_factory_calls),
                            ch_eventloop |-> event_loop,
                            ctx_eventloop |-> event_loop]]
            /\ apc' = "register"
            /\ UNCHANGED event_loop
       ELSE /\ AccLoopHead(ch_id)
            /\ UNCHANGED <<pending, sock, pipeVars>>
    /\ UNCHANGED <<opened, listener_ready, sock_events,
                   ch_id, restVars, selVars, workVars, mapVars,
                   chanVars, scanVars, cbVars>>

\* attach: channel.register(&self.selector), edge-triggered
AccRegister ==
    /\ apc = "register"
    /\ registered' = [registered EXCEPT ![ch_id] = event_loop]
    /\ ready' = IF sock[ch_id] # "idle"
                THEN [ready EXCEPT ![event_loop] = @ \cup {ch_id}]
                ELSE ready
    /\ apc' = AttachNext("register")
    /\ UNCHANGED <<envVars, ch_id, event_loop, restVars,
                   workVars, mapVars, chanVars, scanVars, cbVars, pipeVars>>

\* attach: head_channel_active(); HeadHandler stamps the last read time
AccActive ==
    /\ apc = "active"
    /\ HeadCtxUnlocked(ch_id)
    /\ Deliver(AccT, ch_id, "active")
    /\ since_read' = [since_read EXCEPT ![ch_id] = 0]
    /\ apc' = "in_active"
    /\ UNCHANGED <<envVars, ch_id, event_loop, restVars,
                   selVars, workVars, mapVars, chanVars, scanVars, sock_out,
                   user_writes, pipeVars>>

AccActiveReturn ==
    /\ apc = "in_active"
    /\ Return(AccT)
    /\ apc' = AttachNext("in_active")
    /\ UNCHANGED <<envVars, ch_id, event_loop, restVars,
                   selVars, workVars, mapVars, chanVars, scanVars, since_read,
                   sock_out, user_writes, pipeVars>>

\* insert_new into the map of one loop: every EventLoop has maps of its own
MapInsertShared(map, loop, id) ==
    [w \in Workers |-> map[w] \cup {id}]

MapInsert(map, loop, id) ==
    [map EXCEPT ![loop] = @ \cup {id}]

\* attach: channel_inbound_handler_ctx_pipe_map.insert_new
AccPutPipe ==
    /\ apc = "put_pipe"
    /\ channel_inbound_handler_ctx_pipe_map' =
           MapInsert(channel_inbound_handler_ctx_pipe_map, event_loop, ch_id)
    /\ apc' = AttachNext("put_pipe")
    /\ UNCHANGED <<envVars, ch_id, event_loop, restVars,
                   selVars, workVars, channel_map, chanVars, scanVars, cbVars,
                   pipeVars>>

\* attach: channel_map.insert_new
AccPutChannel ==
    /\ apc = "put_channel"
    /\ channel_map' = MapInsert(channel_map, event_loop, ch_id)
    /\ apc' = AttachNext("put_channel")
    /\ UNCHANGED <<envVars, ch_id, event_loop, restVars,
                   selVars, workVars, channel_inbound_handler_ctx_pipe_map,
                   chanVars, scanVars, cbVars, pipeVars>>

\* channel_container.lock().insert(..); ch_id = incr_id(ch_id)
AccSession ==
    /\ apc = "session"
    /\ ~RegistryLocked
    /\ channel_container' = channel_container \cup {ch_id}
    /\ ch_id' = IncrId(ch_id)
    /\ AccLoopHead(IncrId(ch_id))
    /\ UNCHANGED <<envVars, restVars, selVars,
                   workVars, mapVars, chanVars, spc, queue, skey, sleep_left, cbVars,
                   pipeVars>>

(* ----------------------- worker (EventLoop::run) ----------------------- *)
\* selector.poll returns the events that are ready
WorkerPoll(w) ==
    /\ wpc[w] = "poll"
    /\ ready[w] # {}
    /\ events' = [events EXCEPT ![w] = ready[w]]
    /\ ready' = [ready EXCEPT ![w] = {}]
    /\ wpc' = [wpc EXCEPT ![w] = "iter"]
    /\ UNCHANGED <<envVars, accVars, restVars, registered,
                   wcur, mapVars, chanVars, scanVars, cbVars, pipeVars>>

\* selector.poll times out after 200 ms with no event, then the loop head again
WorkerPollTimeout(w) ==
    /\ wpc[w] = "poll"
    /\ ready[w] = {}
    /\ wpc' = [wpc EXCEPT ![w] = WorkerLoopHead(w)]
    /\ UNCHANGED <<envVars, accVars, restVars, selVars,
                   events, wcur, mapVars, chanVars, scanVars, cbVars, pipeVars>>

\* one event of the for loop, lines 80-100: channel_map.remove, ch.read, close on
\* Ok(0), re-insert unless closed, and the tuple (ch.clone(), buf, err)
WorkerRead(w, e) ==
    /\ wpc[w] = "iter"
    /\ e \in events[w]
    /\ events' = [events EXCEPT ![w] = @ \ {e}]
    /\ IF e \in channel_map[w]
       THEN LET r == ChannelRead(sock[e])
                nowClosed == closed[e] \/ r.res = "Ok0"
            IN /\ sock' = [sock EXCEPT ![e] = r.after]
               /\ closed' = [closed EXCEPT ![e] = nowClosed]
               /\ UNCHANGED close_called
               /\ channel_map' = IF nowClosed
                                 THEN [channel_map EXCEPT ![w] = @ \ {e}]
                                 ELSE channel_map
               /\ wcur' = [wcur EXCEPT ![w] =
                              [c |-> e, closed |-> CloneClosed(nowClosed),
                               nonempty |-> r.nonempty, err |-> ChRet(r.res)]]
               /\ wpc' = [wpc EXCEPT ![w] = "fire"]
       ELSE UNCHANGED <<sock, chanVars, channel_map, wcur, wpc>>
    /\ UNCHANGED <<pending, opened, listener_ready,
                   sock_events, accVars, restVars, selVars,
                   channel_inbound_handler_ctx_pipe_map, scanVars, cbVars,
                   pipeVars>>

\* the for loop is over: the loop head again
WorkerIterDone(w) ==
    /\ wpc[w] = "iter"
    /\ events[w] = {}
    /\ wpc' = [wpc EXCEPT ![w] = WorkerLoopHead(w)]
    /\ UNCHANGED <<envVars, accVars, restVars, selVars,
                   events, wcur, mapVars, chanVars, scanVars, cbVars, pipeVars>>

\* lines 101-122: the pipeline lookup and head_channel_inactive / _exception /
\* _read; HeadHandler::channel_read stamps the last read time
WorkerFire(w) ==
    /\ wpc[w] = "fire"
    /\ wcur[w].c \in channel_inbound_handler_ctx_pipe_map[w]
    /\ HeadCtxUnlocked(wcur[w].c)
    /\ Deliver(w, wcur[w].c, FiredEvent(wcur[w]))
    /\ since_read' = IF FiredEvent(wcur[w]) = "read"
                         THEN [since_read EXCEPT ![wcur[w].c] = 0]
                         ELSE since_read
    /\ wpc' = [wpc EXCEPT ![w] = "in_callback"]
    /\ UNCHANGED <<envVars, accVars, restVars, selVars,
                   events, wcur, mapVars, chanVars, scanVars, sock_out,
                   user_writes, pipeVars>>

WorkerFireReturn(w) ==
    /\ wpc[w] = "in_callback"
    /\ Return(w)
    /\ wcur' = [wcur EXCEPT ![w] = NoCur]
    /\ wpc' = [wpc EXCEPT ![w] = "iter"]
    /\ UNCHANGED <<envVars, accVars, restVars, selVars,
                   events, mapVars, chanVars, scanVars, since_read, sock_out,
                   user_writes, pipeVars>>

(* ------------------ idle scanner (Bootstrap::start) -------------------- *)
\* now - channel.last_read_time_ms() > channel.read_idle_timeout_ms()
Idle(k) ==
    since_read[k] > ReadIdleTimeoutS

\* the keys of S in ascending order, one of the orders an iteration can take
RECURSIVE Ascending(_)
Ascending(S) ==
    IF S = {}
    THEN <<>>
    ELSE LET k == CHOOSE x \in S : \A y \in S : x <= y
         IN <<k>> \o Ascending(S \ {k})

\* the keys the sweep finds idle
IdleKeys ==
    {k \in channel_container : Idle(k)}

\* the sleep is over; lines 179-185: the sweep under the registry lock, the
\* registry iterated in one of the given orders; s.send blocks on a full
\* queue, with the registry guard still held
Sweep(orders) ==
    /\ spc = "pause"
    /\ sleep_left = 0
    /\ \E order \in orders :
          IF Len(queue) + Len(order) > QueueCap
          THEN /\ spc' = "send_blocked"
               /\ queue' = SubSeq(queue \o order, 1, QueueCap)
          ELSE /\ spc' = "select"
               /\ queue' = queue \o order
    /\ UNCHANGED <<envVars, accVars, restVars, selVars,
                   workVars, mapVars, chanVars, channel_container, skey, sleep_left,
                   cbVars, pipeVars>>

ScanSweep ==
    Sweep(Orders(IdleKeys))

\* the same sweep over a registry too large to try every order of
ScanSweepAscending ==
    Sweep({Ascending(IdleKeys)})

\* line 189: channel_container.remove(&key)
SessionsRemoveKeeps(container, key) ==
    container

SessionsRemove(container, key) ==
    container \ {key}

\* lines 189-198: what remove returned, Some(session) for a key the registry
\* held and None otherwise
SessOptAlwaysSome(container, key) ==
    TRUE

SessOpt(container, key) ==
    key \in container

\* lines 186-201: select! { recv(r) -> one key, removed from the registry;
\* default(5000 ms) }, then, with nothing to fire, thread::sleep(1000 ms)
ScanSelect ==
    /\ spc = "select"
    /\ IF queue # <<>>
       THEN /\ queue' = Tail(queue)
            /\ channel_container' = SessionsRemove(channel_container, Head(queue))
            /\ IF SessOpt(channel_container, Head(queue))
               THEN spc' = "fire" /\ skey' = Head(queue) /\ UNCHANGED sleep_left
               ELSE spc' = "pause" /\ sleep_left' = SweepSleepS /\ UNCHANGED skey
       ELSE /\ spc' = "pause"
            /\ sleep_left' = RecvTimeoutS + SweepSleepS
            /\ UNCHANGED <<queue, channel_container, skey>>
    /\ UNCHANGED <<envVars, accVars, restVars, selVars,
                   workVars, mapVars, chanVars, cbVars, pipeVars>>

\* line 195: pipe.head_channel_exception(TimedOut, "ReadIdleTimeout")
ScanFire ==
    /\ spc = "fire"
    /\ HeadCtxUnlocked(skey)
    /\ Deliver(ScanT, skey, "timedout")
    /\ spc' = "in_exception"
    /\ UNCHANGED <<envVars, accVars, restVars, selVars,
                   workVars, mapVars, chanVars, channel_container, queue, skey,
                   sleep_left, since_read, sock_out, user_writes, pipeVars>>

\* the callback returns, the guards drop, thread::sleep(1000 ms)
ScanFireReturn ==
    /\ spc = "in_exception"
    /\ Return(ScanT)
    /\ skey' = NoConn
    /\ spc' = "pause"
    /\ sleep_left' = SweepSleepS
    /\ UNCHANGED <<envVars, accVars, restVars, selVars,
                   workVars, mapVars, chanVars, channel_container, queue,
                   since_read, sock_out, user_writes, pipeVars>>

(* ------------------ user handlers, inside a callback ------------------- *)
\* ctx.close() / ctx.channel().close(): Channel::close sets closed
UserClose(t) ==
    /\ incb[t] # NoConn
    /\ ~closed[incb[t]]
    /\ closed' = [closed EXCEPT ![incb[t]] = TRUE]
    /\ close_called' = [close_called EXCEPT ![incb[t]] = TRUE]
    /\ UNCHANGED <<envVars, accVars, restVars, selVars, workVars, mapVars,
                   scanVars, cbVars, pipeVars>>

\* ctx.write_and_flush(buf): outbound pipeline, TailHandler::channel_write,
\* Channel::write_bytebuf
UserWrite(t) ==
    /\ incb[t] # NoConn
    /\ user_writes < MaxWrites
    /\ user_writes' = user_writes + 1
    /\ sock_out' = IF WriteBytebufWrites(incb[t])
                   THEN [sock_out EXCEPT ![incb[t]] = @ + 1]
                   ELSE sock_out
    /\ UNCHANGED <<envVars, accVars, restVars, selVars, workVars, mapVars,
                   chanVars, scanVars, since_read, incb, cbev, head_order, timeouts,
                   pipeVars>>

(* --------------------------- terminate, time --------------------------- *)
\* Bootstrap::terminate: the bootstrap flag and every worker's shutdown()
Terminate ==
    /\ ~bootstrap_stopped
    /\ bootstrap_stopped' = TRUE
    /\ stopped' = [w \in Workers |-> TRUE]
    /\ UNCHANGED <<envVars, accVars, selVars, workVars,
                   mapVars, chanVars, scanVars, cbVars, pipeVars,
                   schedVars, chainVars, codecVars, groupVars>>

\* every thread is blocked: in a poll with nothing ready, or in the scanner's
\* sleep / timed receive
AllBlocked ==
    /\ apc = "exit" \/ (apc = "poll" /\ ~listener_ready)
    /\ \A w \in Workers : wpc[w] = "exit" \/ (wpc[w] = "poll" /\ ready[w] = {})
    /\ spc = "pause" /\ sleep_left > 0

\* one second passes
Tick ==
    /\ AllBlocked
    /\ sleep_left' = sleep_left - 1
    /\ since_read' = [c \in Conns |->
                         IF sock[c] # "none" /\ since_read[c] < AgeCap
                         THEN since_read[c] + 1 ELSE since_read[c]]
    /\ UNCHANGED <<envVars, accVars, restVars, selVars,
                   workVars, mapVars, chanVars, channel_container, spc, queue,
                   skey, incb, cbev, head_order, timeouts, sock_out, user_writes,
                   pipeVars>>

\* threads of arbitrary speed: more than the idle timeout passes for c
IdleElapses(c) ==
    /\ sock[c] # "none"
    /\ since_read[c] < AgeCap
    /\ since_read' = [since_read EXCEPT ![c] = AgeCap]
    /\ UNCHANGED <<envVars, accVars, restVars, selVars,
                   workVars, mapVars, chanVars, scanVars, incb, cbev, head_order,
                   timeouts,
                   sock_out, user_writes, pipeVars>>

\* threads of arbitrary speed: the rest of the scanner's sleep passes
SleepElapses ==
    /\ spc = "pause"
    /\ sleep_left > 0
    /\ sleep_left' = 0
    /\ UNCHANGED <<envVars, accVars, restVars, selVars,
                   workVars, mapVars, chanVars, channel_container, spc, queue,
                   skey, cbVars, pipeVars>>

Next ==
    \/ Connect
    \/ \E c \in Conns : PeerSend(c)
    \/ \E c \in Conns : PeerClose(c)
    \/ \E c \in Conns : PeerReset(c)
    \/ AccPoll
    \/ AccPollTimeout
    \/ AccAccept
    \/ AccRegister
    \/ AccActive
    \/ AccActiveReturn
    \/ AccPutPipe
    \/ AccPutChannel
    \/ AccSession
    \/ \E w \in Workers : WorkerPoll(w)
    \/ \E w \in Workers : WorkerPollTimeout(w)
    \/ \E w \in Workers : \E e \in Conns : WorkerRead(w, e)
    \/ \E w \in Workers : WorkerIterDone(w)
    \/ \E w \in Workers : WorkerFire(w)
    \/ \E w \in Workers : WorkerFireReturn(w)
    \/ ScanSweep
    \/ ScanSelect
    \/ ScanFire
    \/ ScanFireReturn
    \/ \E t \in Threads : UserClose(t)
    \/ \E t \in Threads : UserWrite(t)
    \/ \E c \in Conns : IdleElapses(c)
    \/ SleepElapses

Spec == Init /\ [][Next]_vars

NextTimed ==
    \/ Connect
    \/ \E c \in Conns : PeerSend(c)
    \/ AccPoll
    \/ AccPollTimeout
    \/ AccAccept
    \/ AccRegister
    \/ AccActive
    \/ AccActiveReturn
    \/ AccPutPipe
    \/ AccPutChannel
    \/ AccSession
    \/ \E w \in Workers : WorkerPoll(w)
    \/ \E w \in Workers : WorkerPollTimeout(w)
    \/ \E w \in Workers : \E e \in Conns : WorkerRead(w, e)
    \/ \E w \in Workers : WorkerIterDone(w)
    \/ \E w \in Workers : WorkerFire(w)
    \/ \E w \in Workers : WorkerFireReturn(w)
    \/ ScanSweep
    \/ ScanSelect
    \/ ScanFire
    \/ ScanFireReturn
    \/ Tick

SpecTimed == Init /\ [][NextTimed]_vars

(* ------------- termination and scheduled tasks (SpecStop) -------------- *)
\* EventLoop::schedule_delayed called from a callback, on ctx.event_loop(): the
\* calling thread enters thread::sleep(delay_ms)
ScheduleDelayed(t) ==
    /\ incb[t] # NoConn
    /\ in_sleep[t] = NoLoop
    /\ scheduled < MaxTasks
    /\ scheduled' = scheduled + 1
    /\ in_sleep' = [in_sleep EXCEPT ![t] = pipes[incb[t]].ctx_eventloop]
    /\ UNCHANGED <<envVars, accVars, stopVars, selVars, workVars, mapVars,
                   chanVars, scanVars, cbVars, pipeVars, excutor,
                   chainVars, codecVars, groupVars>>

\* the delay is over: self.excutor.spawn(task), and schedule_delayed returns
ScheduleDelayedSpawn(t) ==
    /\ in_sleep[t] # NoLoop
    /\ excutor' = [excutor EXCEPT ![in_sleep[t]].jobs = @ + 1]
    /\ in_sleep' = [in_sleep EXCEPT ![t] = NoLoop]
    /\ UNCHANGED <<envVars, accVars, stopVars, selVars, workVars, mapVars,
                   chanVars, scanVars, cbVars, pipeVars, scheduled,
                   chainVars, codecVars, groupVars>>

\* the pool of num_threads(1): its thread takes the next spawned job when the
\* closure of EventLoop::run has returned
ExcutorNextJob(w) ==
    /\ wpc[w] = "exit"
    /\ excutor[w].jobs > 0
    /\ excutor' = [excutor EXCEPT ![w] = [jobs |-> @.jobs - 1, ran |-> @.ran + 1]]
    /\ UNCHANGED <<envVars, accVars, stopVars, selVars, workVars, mapVars,
                   chanVars, scanVars, cbVars, pipeVars, scheduled, in_sleep,
                   chainVars, codecVars, groupVars>>

NextStop ==
    \/ Connect
    \/ \E c \in Conns : PeerSend(c)
    \/ AccPoll
    \/ AccPollTimeout
    \/ AccAccept
    \/ AccRegister
    \/ AccActive
    \/ AccActiveReturn
    \/ AccPutPipe
    \/ AccPutChannel
    \/ AccSession
    \/ \E w \in Workers : WorkerPoll(w)
    \/ \E w \in Workers : WorkerPollTimeout(w)
    \/ \E w \in Workers : \E e \in Conns : WorkerRead(w, e)
    \/ \E w \in Workers : WorkerIterDone(w)
    \/ \E w \in Workers : WorkerFire(w)
    \/ \E w \in Workers : WorkerFireReturn(w)
    \/ Terminate
    \/ \E t \in Threads : ScheduleDelayed(t)
    \/ \E t \in Threads : ScheduleDelayedSpawn(t)
    \/ \E w \in Workers : ExcutorNextJob(w)

SpecStop == Init /\ [][NextStop]_vars

(* ------------- a registry full of idle connections (SpecSweep) --------- *)
\* ids of the connections in the registry, and of the one in the backlog
SweepConns == FirstChId .. (FirstChId + IdleConns - 1)
SweepNext == FirstChId + IdleConns

\* IdleConns peers have connected and been attached, none has sent anything and
\* the idle timeout has passed for all of them while the scanner was in its
\* timed receive and sleep; one more connection waits in the backlog
InitSweep ==
    /\ pending = 1
    /\ opened = IdleConns + 1
    /\ listener_ready = TRUE
    /\ apc = "poll"
    /\ ch_id = SweepNext
    /\ event_loop = SweepNext % NWorkers
    /\ bootstrap_stopped = FALSE
    /\ stopped = [w \in Workers |-> FALSE]
    /\ sock = [c \in SweepConns \cup {SweepNext} |->
                  IF c \in SweepConns THEN "idle" ELSE "none"]
    /\ sock_events = 0
    /\ registered = [c \in SweepConns \cup {SweepNext} |->
                        IF c \in SweepConns THEN c % NWorkers ELSE NoLoop]
    /\ ready = [w \in Workers |-> {}]
    /\ events = [w \in Workers |-> {}]
    /\ wpc = [w \in Workers |-> "poll"]
    /\ wcur = [w \in Workers |-> NoCur]
    /\ channel_map = [w \in Workers |-> {c \in SweepConns : c % NWorkers = w}]
    /\ channel_inbound_handler_ctx_pipe_map =
           [w \in Workers |-> {c \in SweepConns : c % NWorkers = w}]
    /\ closed = [c \in SweepConns \cup {SweepNext} |-> FALSE]
    /\ close_called = [c \in SweepConns \cup {SweepNext} |-> FALSE]
    /\ channel_container = SweepConns
    /\ spc = "pause"
    /\ queue = <<>>
    /\ skey = NoConn
    /\ sleep_left = 0
    /\ since_read = [c \in SweepConns \cup {SweepNext} |->
                        IF c \in SweepConns THEN AgeCap ELSE 0]
    /\ incb = [t \in Threads |-> NoConn]
    /\ cbev = [t \in Threads |-> "none"]
    /\ head_order = [c \in SweepConns \cup {SweepNext} |->
                        IF c \in SweepConns THEN "active" ELSE "start"]
    /\ timeouts = [c \in SweepConns \cup {SweepNext} |-> 0]
    /\ sock_out = [c \in SweepConns \cup {SweepNext} |-> 0]
    /\ user_writes = 0
    /\ in_factory_calls = IdleConns
    /\ out_factory_calls = IdleConns
    /\ pipes = [c \in SweepConns \cup {SweepNext} |->
                   IF c \in SweepConns
                   THEN [inb |-> c + 1 - FirstChId, outb |-> c + 1 - FirstChId,
                         ch_eventloop |-> c % NWorkers,
                         ctx_eventloop |-> c % NWorkers]
                   ELSE [inb |-> 0, outb |-> 0, ch_eventloop |-> NoLoop,
                         ctx_eventloop |-> NoLoop]]
    /\ scheduled = 0
    /\ in_sleep = [t \in Threads |-> NoLoop]
    /\ excutor = [w \in Workers |-> [jobs |-> 0, ran |-> 0]]
    /\ ChainIdle
    /\ CodecIdle
    /\ GroupIdle

NextSweep ==
    \/ ScanSweepAscending
    \/ ScanSelect
    \/ ScanFire
    \/ ScanFireReturn
    \/ SleepElapses
    \/ AccPoll
    \/ AccPollTimeout
    \/ AccAccept
    \/ AccRegister
    \/ AccActive
    \/ AccActiveReturn
    \/ AccPutPipe
    \/ AccPutChannel
    \/ AccSession
    \/ \E w \in Workers : WorkerPollTimeout(w)
    \/ Terminate

SpecSweep == InitSweep /\ [][NextSweep]_vars

(* ======================= claims on Spec / SpecTimed ===================== *)
Attached(c) ==
    \/ c \in channel_container
    \/ \E w \in Workers :
          c \in channel_map[w] \/ c \in channel_inbound_handler_ctx_pipe_map[w]

\* the worker has read end-of-stream on the connection, closed it, and finished
\* the dispatch of that event: the loop delivers nothing to it any more
LoopDone(c) ==
    /\ closed[c]
    /\ ~close_called[c]
    /\ \A w \in Workers : wcur[w].c # c

C5_PerConnectionHandlers ==
    /\ in_factory_calls = Cardinality({c \in Conns : sock[c] # "none"})
    /\ out_factory_calls = Cardinality({c \in Conns : sock[c] # "none"})
    /\ \A c, d \in Conns :
          (c # d /\ sock[c] # "none" /\ sock[d] # "none") =>
              /\ pipes[c].inb # pipes[d].inb
              /\ pipes[c].outb # pipes[d].outb

\* two connections are attached, each with its pipelines
C5_Witness ==
    \E c, d \in Conns : c # d /\ Attached(c) /\ Attached(d)

\* C12: an accepted connection c belongs to worker c mod N: its channel's
\* event loop, its contexts' event loop, its selector registration and its map
\* entries are all there, so consecutive connections go to consecutive workers
C12_AttachedRoundRobin ==
    \A c \in Conns :
        sock[c] # "none" =>
            /\ pipes[c].ch_eventloop = c % NWorkers
            /\ pipes[c].ctx_eventloop = c % NWorkers
            /\ registered[c] \in {NoLoop, c % NWorkers}
            /\ \A w \in Workers :
                  (c \in channel_map[w]
                      \/ c \in channel_inbound_handler_ctx_pipe_map[w]) =>
                      w = c % NWorkers

\* two consecutive connections are attached, to two different workers
C12_Witness ==
    \E c \in Conns :
        /\ c + 1 \in Conns
        /\ c \in channel_map[c % NWorkers]
        /\ c + 1 \in channel_map[(c + 1) % NWorkers]
        /\ c % NWorkers # (c + 1) % NWorkers

\* C13: a connection is in the channel map of at most one worker, the one it
\* is registered with, and only that worker gets its readiness events and
\* reads it
C13_SingleOwner ==
    \A c \in Conns : \A w \in Workers :
        (\/ c \in channel_map[w]
         \/ c \in ready[w]
         \/ c \in events[w]
         \/ wcur[w].c = c) => registered[c] = w

\* a worker has read a connection of its own and kept it in its channel map,
\* while the other connection belongs to another worker
C13_Witness ==
    \E w \in Workers : \E d \in Conns :
        /\ wpc[w] = "fire"
        /\ wcur[w].c \in channel_map[w]
        /\ registered[d] \notin {NoLoop, w}
        /\ d \in channel_map[registered[d]]

\* C14: once the closed flag of a connection is set, every is_closed()
\* observation of it is true, also the one the reactor makes on the Channel
\* value it cloned
C14_ClosedMonotonic ==
    \A w \in Workers :
        (wcur[w].c # NoConn /\ closed[wcur[w].c]) => wcur[w].closed

\* C15: no exception delivered by a worker carries WouldBlock, and a read of
\* an open channel that ends in WouldBlock leaves it open and in the worker's
\* channel map
C15_WouldBlockNotSurfaced ==
    [][\A w \in Workers :
          /\ cbev'[w] = "exception" => wcur'[w].err # "WouldBlock"
          /\ \A e \in Conns :
                (/\ wcur[w].c # e
                 /\ wcur'[w].c = e
                 /\ ChannelRead(sock[e]).res = "WouldBlock"
                 /\ ~closed[e]) =>
                    (~closed'[e] /\ e \in channel_map'[w])]_vars

\* a worker is delivering the bytes of a read that ended in WouldBlock, as a
\* read, with the connection still open and in its channel map
C15_Witness ==
    \E w \in Workers :
        /\ cbev[w] = "read"
        /\ wcur[w].nonempty
        /\ sock[wcur[w].c] = "idle"
        /\ ~closed[wcur[w].c]
        /\ wcur[w].c \in channel_map[w]

\* C16: a read of an open channel that fails with another error than
\* WouldBlock leaves the channel open and in the worker's channel map, and the
\* one event the worker delivers for it is an exception with that error
C16_ErrorSurfacedOnce ==
    [][\A w \in Workers :
          /\ \A e \in Conns :
                (/\ wcur[w].c # e
                 /\ wcur'[w].c = e
                 /\ ChannelRead(sock[e]).res \notin {"Ok0", "OkN", "WouldBlock"}
                 /\ ~closed[e]) =>
                    /\ ~closed'[e]
                    /\ e \in channel_map'[w]
                    /\ wcur'[w].err = ChannelRead(sock[e]).res
          /\ (wcur[w].err # "none" /\ cbev[w] = "none" /\ cbev'[w] # "none") =>
                (cbev'[w] = "exception" /\ incb'[w] = wcur[w].c)
          /\ (wcur[w].err # "none" /\ cbev[w] # "none" /\ cbev'[w] = "none") =>
                wcur'[w].c = NoConn]_vars

\* a worker is delivering ConnectionReset as an exception, the connection
\* open and still in its channel map
C16_Witness ==
    \E w \in Workers :
        /\ cbev[w] = "exception"
        /\ wcur[w].err = "ConnectionReset"
        /\ ~closed[wcur[w].c]
        /\ wcur[w].c \in channel_map[w]

\* C17: the event of a read that returned Ok(0) is delivered as inactive, never
\* as read or exception, and once its dispatch is over neither the channel map
\* nor the pipeline map of any worker holds the connection
C17_EofDeliversInactive ==
    /\ \A w \in Workers :
          (/\ wcur[w].c # NoConn
           /\ closed[wcur[w].c]
           /\ ~close_called[wcur[w].c]) => cbev[w] \in {"none", "inactive"}
    /\ \A c \in Conns :
          LoopDone(c) =>
              \A w \in Workers :
                  /\ c \notin channel_map[w]
                  /\ c \notin channel_inbound_handler_ctx_pipe_map[w]

\* every worker is blocked in poll with no event reported or left to handle,
\* and no thread is inside a callback: without a peer event no worker moves
WorkersIdle ==
    /\ \A w \in Workers :
          wpc[w] = "poll" /\ ready[w] = {} /\ events[w] = {}
    /\ \A t \in Threads : incb[t] = NoConn

\* C18: once a handler has closed a connection through its context, inactive
\* is delivered to it with no further peer event: when the workers have
\* nothing left to do, it has been delivered
C18_InactiveAfterUserClose ==
    \A c \in Conns :
        (close_called[c] /\ WorkersIdle) => head_order[c] = "inactive"

\* C19: the scanner fires for a key exactly when it removes the key from the
\* registry; what it fires is the TimedOut exception of that connection, the
\* key stays out of the registry, and neither step changes a closed flag, a
\* channel map or a pipeline map
C19_EvictionFiresTimedOut ==
    [][/\ \A k \in Conns :
             (k \in channel_container /\ k \notin channel_container') =>
                 (spc' = "fire" /\ skey' = k)
       /\ (spc # "fire" /\ spc' = "fire") =>
             /\ skey' \in channel_container
             /\ skey' \notin channel_container'
             /\ UNCHANGED <<closed, channel_map,
                            channel_inbound_handler_ctx_pipe_map>>
       /\ (spc = "fire" /\ spc' # "fire") =>
             /\ cbev'[ScanT] = "timedout"
             /\ incb'[ScanT] = skey
             /\ skey \notin channel_container'
             /\ UNCHANGED <<closed, channel_map,
                            channel_inbound_handler_ctx_pipe_map>>]_vars

\* the scanner is inside the TimedOut exception of a connection it has removed
\* from the registry and that a worker still has in both of its maps
C19_Witness ==
    /\ spc = "in_exception"
    /\ cbev[ScanT] = "timedout"
    /\ skey \notin channel_container
    /\ \E w \in Workers :
          /\ skey \in channel_map[w]
          /\ skey \in channel_inbound_handler_ctx_pipe_map[w]

\* C20: a thread that is inside a callback of a connection (an inbound event,
\* and the writes the handler issues from it) is the worker the connection is
\* registered with, never the acceptor or the scanner
C20_ThreadAffinity ==
    \A t \in Threads :
        incb[t] # NoConn => (t \in Workers /\ registered[incb[t]] = t)

\* C23: between operations (the worker is not handling an event of the
\* connection, the acceptor is not between the two inserts of its attach) a
\* worker's pipeline map holds an id iff its channel map does
C23_PipeIffChannel ==
    \A w \in Workers : \A c \in Conns :
        (wcur[w].c # c /\ ~(ch_id = c /\ apc = "put_channel")) =>
            (c \in channel_inbound_handler_ctx_pipe_map[w] <=> c \in channel_map[w])

\* C24: a worker enters head_channel_read only for an open channel and with a
\* buffer that received at least one byte
C24_ReadOnlyWithBytes ==
    [][\A w \in Workers :
          (cbev[w] # "read" /\ cbev'[w] = "read") =>
              (wcur[w].nonempty /\ ~closed[wcur[w].c])]_vars

\* C25: while the scanner thread is inside a callback the registry mutex is
\* free
C25_ScannerFiresUnlocked ==
    incb[ScanT] # NoConn => ~RegistryLocked

\* C27: when the acceptor is back in poll with no notification of the listener
\* outstanding, no connection is left in the backlog
C27_AcceptsAllPending ==
    (apc = "poll" /\ ~listener_ready) => pending = 0

\* C30: an event a worker takes from its poll for an open connection registered
\* with it finds the connection in the channel map
C30_NoEventLostInAttach ==
    [][\A w \in Workers : \A e \in Conns :
          (/\ wpc[w] = "iter"
           /\ e \in events[w]
           /\ e \notin events'[w]
           /\ registered[e] = w
           /\ ~closed[e]) => e \in channel_map[w]]_vars

\* C22: schedule_delayed does not keep a worker thread asleep inside the
\* calling handler, and a task it has submitted to a loop whose reactor is
\* running is executed while the reactor runs: with that reactor back in poll
\* and nothing to do, no submitted task is still waiting
C22_TaskRunsBesideReactor ==
    \A w \in Workers :
        /\ in_sleep[w] = NoLoop
        /\ (wpc[w] = "poll" /\ ready[w] = {} /\ ~stopped[w]) =>
               excutor[w].jobs = 0

\* C28: the acceptor registers no connection with the selector of a worker
\* whose stopped flag is set
C28_NoAttachOnStoppedLoop ==
    [][\A c \in Conns :
          (registered[c] = NoLoop /\ registered'[c] # NoLoop) =>
              ~stopped[registered'[c]]]_vars

\* C21: once terminate() has set the flags, a reactor loop that has not exited
\* gets to its loop head: the acceptor is not left waiting for the registry
\* mutex under a scanner that is blocked for good
C21_LoopsExitAfterTerminate ==
    bootstrap_stopped => ~(apc = "session" /\ spc = "send_blocked")

\* C26: the scanner is never blocked in send with the registry guard held
C26_SendNeverBlocks ==
    spc # "send_blocked"

\* C32: the TimedOut exception is fired at the head of a connection at most
\* once, however often its id was enqueued
C32_TimedOutAtMostOnce ==
    \A c \in DOMAIN timeouts : timeouts[c] <= 1

\* the scanner is about to dequeue an id a second time: the connection has had
\* its TimedOut exception and is out of the registry, its id is at the head of
\* the queue again
C32_Witness ==
    /\ spc = "select"
    /\ queue # <<>>
    /\ timeouts[Head(queue)] = 1
    /\ Head(queue) \notin channel_container

\* C6: no connection stays in the registry with its last read older than the
\* idle timeout plus two seconds
C6_IdleEvictedInTime ==
    \A c \in channel_container : since_read[c] <= ReadIdleTimeoutS + 2

\* C7: once a handler has called close() on a connection, no read or exception
\* is delivered to its head
C7_NoEventAfterClose ==
    [][\A t \in Threads :
          (incb[t] = NoConn /\ incb'[t] # NoConn /\ close_called[incb'[t]]) =>
              cbev'[t] \notin {"read", "exception", "timedout"}]_vars

\* C8: once a handler has called close() on a connection, no write reaches its
\* stream
C8_NoWriteAfterClose ==
    [][\A c \in Conns : close_called[c] => sock_out'[c] = sock_out[c]]_vars

(* =================== pipelines (SpecPipe) ============================== *)
\* handler ids the factories choose from
InboundIds == {"A", "B", "C"}
OutboundIds == {"X", "Y", "Z"}

\* every list of at most n elements of S
ListsUpTo(S, n) ==
    UNION {[1 .. k -> S] : k \in 0 .. n}

\* ChannelInboundHandlerPipe::add_first / ChannelOutboundHandlerPipe::add_last
AddFirstAppends(handlers, h) ==
    Append(handlers, h)

AddFirst(handlers, h) ==
    <<h>> \o handlers

AddLast(handlers, h) ==
    Append(handlers, h)

\* channel_handler_pipe.handlers.reverse()
ReverseKeeps(s) ==
    s

Reverse(s) ==
    [i \in 1 .. Len(s) |-> s[Len(s) + 1 - i]]

\* the second loop of create_channel_*_ctx_pipe, for the context at position j:
\* head_ctx is None at the first context and the first context elsewhere,
\* next_ctx is the context at j + 1 or None
CtxLinksHeadEverywhere(handlers, j) ==
    [id |-> handlers[j],
     head_ctx |-> 1,
     next_ctx |-> IF j + 1 <= Len(handlers) THEN j + 1 ELSE NoCtx]

CtxLinks(handlers, j) ==
    [id |-> handlers[j],
     head_ctx |-> IF j = 1 THEN NoCtx ELSE 1,
     next_ctx |-> IF j + 1 <= Len(handlers) THEN j + 1 ELSE NoCtx]

\* Bootstrap::create_channel_inbound_ctx_pipe on the factory's handlers; every
\* ChannelInboundHandlerCtx::new is given Some(out_pipe.clone())
CreateChannelInboundCtxPipe(handlers, out_pipe) ==
    LET hs == AddFirst(handlers, "HEAD")
    IN [j \in 1 .. Len(hs) |->
           [id |-> CtxLinks(hs, j).id,
            head_ctx |-> CtxLinks(hs, j).head_ctx,
            next_ctx |-> CtxLinks(hs, j).next_ctx,
            outbound_context_pipe |-> out_pipe]]

\* Bootstrap::create_channel_outbound_ctx_pipe on the factory's handlers
CreateChannelOutboundCtxPipe(handlers) ==
    LET hs == AddLast(Reverse(handlers), "TAIL")
    IN [j \in 1 .. Len(hs) |-> CtxLinks(hs, j)]

InitPipe ==
    /\ ReactorInit
    /\ CodecIdle
    /\ GroupIdle
    /\ in_handlers \in ListsUpTo(InboundIds, MaxHandlers)
    /\ out_handlers \in ListsUpTo(OutboundIds, MaxHandlers)
    /\ in_ctx_pipe = <<>>
    /\ out_ctx_pipe = <<>>
    /\ in_at = NoCtx
    /\ in_calls = <<>>
    /\ in_stopped = FALSE
    /\ out_at = NoCtx
    /\ out_calls = <<>>
    /\ out_stopped = FALSE
    /\ out_issuer = NoCtx

\* the acceptor builds the outbound pipeline first (bootstrap.rs 262-266)
BuildOutbound ==
    /\ out_ctx_pipe = <<>>
    /\ out_ctx_pipe' = CreateChannelOutboundCtxPipe(out_handlers)
    /\ UNCHANGED <<reactorVars, codecVars, groupVars, in_handlers, out_handlers,
                   in_ctx_pipe, in_at, in_calls, in_stopped, out_at, out_calls,
                   out_stopped, out_issuer>>

\* then the inbound one, which is handed the outbound one (bootstrap.rs 267-272)
BuildInbound ==
    /\ out_ctx_pipe # <<>>
    /\ in_ctx_pipe = <<>>
    /\ in_ctx_pipe' = CreateChannelInboundCtxPipe(in_handlers, out_ctx_pipe)
    /\ UNCHANGED <<reactorVars, codecVars, groupVars, in_handlers, out_handlers,
                   out_ctx_pipe, in_at, in_calls, in_stopped, out_at, out_calls,
                   out_stopped, out_issuer>>

\* ChannelInboundHandlerCtxPipe::head_channel_read: the first context's handler
\* is called with the first context
HeadChannelRead ==
    /\ in_ctx_pipe # <<>>
    /\ in_at = NoCtx
    /\ in_at' = 1
    /\ in_calls' = <<in_ctx_pipe[1].id>>
    /\ in_stopped' = FALSE
    /\ UNCHANGED <<reactorVars, codecVars, groupVars, in_handlers, out_handlers,
                   in_ctx_pipe, out_ctx_pipe, out_at, out_calls, out_stopped,
                   out_issuer>>

\* ChannelInboundHandlerCtx::fire_channel_read from the running handler: the
\* next context's handler is called with the next context; without a next
\* context the read is dropped and the calls return
FireChannelRead ==
    /\ in_at # NoCtx
    /\ out_at = NoCtx
    /\ LET next_ctx == in_ctx_pipe[in_at].next_ctx
       IN IF next_ctx # NoCtx
          THEN /\ in_at' = next_ctx
               /\ in_calls' = Append(in_calls, in_ctx_pipe[next_ctx].id)
          ELSE /\ in_at' = NoCtx
               /\ UNCHANGED in_calls
    /\ UNCHANGED <<reactorVars, codecVars, groupVars, in_handlers, out_handlers,
                   in_ctx_pipe, out_ctx_pipe, in_stopped, out_at, out_calls,
                   out_stopped, out_issuer>>

\* a user handler's channel_read returns without fire_channel_read
\* (HeadHandler::channel_read always forwards)
ChannelReadReturns ==
    /\ in_at # NoCtx
    /\ out_at = NoCtx
    /\ in_ctx_pipe[in_at].id # "HEAD"
    /\ in_at' = NoCtx
    /\ in_stopped' = TRUE
    /\ UNCHANGED <<reactorVars, codecVars, groupVars, in_handlers, out_handlers,
                   in_ctx_pipe, out_ctx_pipe, in_calls, out_at, out_calls,
                   out_stopped, out_issuer>>

\* ChannelOutboundHandlerCtxPipe::head_channel_write: the first context's
\* handler is called with the first context
HeadChannelWrite ==
    /\ out_at' = 1
    /\ out_calls' = <<out_ctx_pipe[1].id>>
    /\ out_stopped' = FALSE

\* ChannelInboundHandlerCtx::write_and_flush from the running user handler's
\* context: outbound_context_pipe is Some for every inbound context
WriteAndFlush ==
    /\ in_at # NoCtx
    /\ out_at = NoCtx
    /\ in_ctx_pipe[in_at].id # "HEAD"
    /\ HeadChannelWrite
    /\ out_issuer' = in_at
    /\ UNCHANGED <<reactorVars, codecVars, groupVars, in_handlers, out_handlers,
                   in_ctx_pipe, out_ctx_pipe, in_at, in_calls, in_stopped>>

\* ChannelOutboundHandlerCtx::fire_channel_write from the running user handler
FireChannelWrite ==
    /\ out_at # NoCtx
    /\ out_ctx_pipe[out_at].id # "TAIL"
    /\ LET next_ctx == out_ctx_pipe[out_at].next_ctx
       IN IF next_ctx # NoCtx
          THEN /\ out_at' = next_ctx
               /\ out_calls' = Append(out_calls, out_ctx_pipe[next_ctx].id)
          ELSE /\ out_at' = NoCtx
               /\ UNCHANGED out_calls
    /\ UNCHANGED <<reactorVars, codecVars, groupVars, in_handlers, out_handlers,
                   in_ctx_pipe, out_ctx_pipe, in_at, in_calls, in_stopped,
                   out_stopped, out_issuer>>

\* a user handler's channel_write returns without fire_channel_write
ChannelWriteReturns ==
    /\ out_at # NoCtx
    /\ out_ctx_pipe[out_at].id # "TAIL"
    /\ out_at' = NoCtx
    /\ out_stopped' = TRUE
    /\ UNCHANGED <<reactorVars, codecVars, groupVars, in_handlers, out_handlers,
                   in_ctx_pipe, out_ctx_pipe, in_at, in_calls, in_stopped,
                   out_calls, out_issuer>>

\* TailHandler::channel_write: the bytes go to the channel, nothing is forwarded
TailChannelWrite ==
    /\ out_at # NoCtx
    /\ out_ctx_pipe[out_at].id = "TAIL"
    /\ out_at' = NoCtx
    /\ UNCHANGED <<reactorVars, codecVars, groupVars, in_handlers, out_handlers,
                   in_ctx_pipe, out_ctx_pipe, in_at, in_calls, in_stopped,
                   out_calls, out_stopped, out_issuer>>

NextPipe ==
    \/ BuildOutbound
    \/ BuildInbound
    \/ HeadChannelRead
    \/ FireChannelRead
    \/ ChannelReadReturns
    \/ WriteAndFlush
    \/ FireChannelWrite
    \/ ChannelWriteReturns
    \/ TailChannelWrite

SpecPipe == InitPipe /\ [][NextPipe]_vars

\* s is an initial segment of t
IsPrefix(s, t) ==
    /\ Len(s) <= Len(t)
    /\ \A i \in 1 .. Len(s) : s[i] = t[i]

\* C3: a read fired at the inbound head reaches head, then the registered
\* handlers in registration order, each once; when every handler forwarded,
\* it has reached them all
C3_InboundOrder ==
    /\ IsPrefix(in_calls, <<"HEAD">> \o in_handlers)
    /\ (in_calls # <<>> /\ in_at = NoCtx /\ ~in_stopped) =>
           in_calls = <<"HEAD">> \o in_handlers

\* the read went through A, B, C and every one of them forwarded it
C3_Witness ==
    /\ in_handlers = <<"A", "B", "C">>
    /\ in_calls = <<"HEAD", "A", "B", "C">>
    /\ in_at = NoCtx
    /\ ~in_stopped

\* the contexts met by following next_ctx from context j, at most fuel of them
RECURSIVE FollowNext(_, _, _)
FollowNext(pipe, j, fuel) ==
    IF j = NoCtx \/ fuel = 0
    THEN <<>>
    ELSE <<j>> \o FollowNext(pipe, pipe[j].next_ctx, fuel - 1)

\* a built pipeline is one chain: next_ctx of a context is the context after it
\* and None only at the last, following next_ctx from the first context meets
\* every context once, head_ctx is None at the first context and the first
\* context at every other
LinkedChain(pipe) ==
    /\ \A j \in 1 .. Len(pipe) :
          /\ pipe[j].next_ctx = IF j < Len(pipe) THEN j + 1 ELSE NoCtx
          /\ pipe[j].head_ctx = IF j = 1 THEN NoCtx ELSE 1
    /\ FollowNext(pipe, 1, Len(pipe) + 1) = [j \in 1 .. Len(pipe) |-> j]

\* C29: every built pipeline, inbound and outbound, is one acyclic chain with
\* a context per handler plus head or tail, and every inbound context holds the
\* outbound pipeline built for the same connection
C29_PipelinesLinked ==
    /\ out_ctx_pipe # <<>> =>
          /\ Len(out_ctx_pipe) = Len(out_handlers) + 1
          /\ LinkedChain(out_ctx_pipe)
    /\ in_ctx_pipe # <<>> =>
          /\ Len(in_ctx_pipe) = Len(in_handlers) + 1
          /\ LinkedChain(in_ctx_pipe)
          /\ \A j \in 1 .. Len(in_ctx_pipe) :
                in_ctx_pipe[j].outbound_context_pipe = out_ctx_pipe

\* both pipelines are built: an inbound one with several user handlers and an
\* outbound one with none
C29_Witness ==
    /\ Len(in_ctx_pipe) > 2
    /\ Len(out_ctx_pipe) = 1
    /\ out_handlers = <<>>

\* C4: a write issued from an inbound handler's context reaches the outbound
\* handlers last-registered first, each once, then the tail; when every
\* handler forwarded, it has reached them all
C4_OutboundOrder ==
    LET n == Len(out_handlers)
    IN /\ Len(out_calls) <= n + 1
       /\ \A i \in 1 .. Len(out_calls) :
              out_calls[i] = IF i <= n THEN out_handlers[n + 1 - i] ELSE "TAIL"
       /\ (out_calls # <<>> /\ out_at = NoCtx /\ ~out_stopped) =>
              Len(out_calls) = n + 1

\* a write issued from handler B's context went through Z, Y, X and the tail
C4_Witness ==
    /\ out_handlers = <<"X", "Y", "Z">>
    /\ out_issuer # NoCtx
    /\ in_ctx_pipe[out_issuer].id = "B"
    /\ out_calls = <<"Z", "Y", "X", "TAIL">>
    /\ out_at = NoCtx

(* ============ FirstIntegerLengthFieldDecoder (SpecCodec) =============== *)
\* the payloads the peer chooses from: the pieces of "hello", the empty one
\* included
Hello == <<104, 101, 108, 108, 111>>
Payloads == {SubSeq(Hello, i, j) : i \in 1 .. Len(Hello), j \in 0 .. Len(Hello)}

\* the peer's length prefix: n as four bytes, most significant first
Len32(n) ==
    <<(n \div 16777216) % 256, (n \div 65536) % 256, (n \div 256) % 256, n % 256>>

\* concat(len32(p_i) || p_i) over the first k frames
RECURSIVE StreamOf(_, _)
StreamOf(fs, k) ==
    IF k = 0 THEN <<>>
    ELSE StreamOf(fs, k - 1) \o Len32(Len(fs[k])) \o fs[k]

Stream ==
    StreamOf(frames, Len(frames))

\* ByteBuf::read_u32_be at reader index r (bytes r+1 .. r+4 of the sequence)
ReadU32BE(buf, r) ==
    buf[r + 1] * 16777216 + buf[r + 2] * 65536 + buf[r + 3] * 256 + buf[r + 4]

\* the downstream handler of the contract: it reads the length and then L
\* payload bytes from the buffer it is given
DownstreamNeeds(pkt_len) ==
    4 + pkt_len

\* the decoder's test before firing, on the readable bytes and the length read
FrameReady(readable, pkt_len) ==
    ~(readable < pkt_len)

\* the loop of channel_read over bytebuf = ByteBuf::new_from(all_buf) with the
\* reader index at r; out collects the downstream calls.  A downstream read
\* past the writer index either panics or stops at the writer index (under).
RECURSIVE DecodeLoop(_, _, _, _)
DecodeLoop(buf, r, out, under) ==
    LET readable == Len(buf) - r
    IN IF readable < 4
       THEN [all_buf |-> buf, out |-> out, panicked |-> FALSE]
       ELSE LET pkt_len == ReadU32BE(buf, r)
                need == DownstreamNeeds(pkt_len)
                got == IF readable >= need THEN need ELSE readable
                call == [len |-> pkt_len, avail |-> readable,
                         payload |-> SubSeq(buf, r + 5, r + got)]
            IN IF ~FrameReady(readable, pkt_len)
               THEN [all_buf |-> buf, out |-> out, panicked |-> FALSE]
               ELSE IF readable < need /\ under = "panic"
               THEN [all_buf |-> buf, out |-> Append(out, call),
                     panicked |-> TRUE]
               ELSE IF r + got = Len(buf)
               THEN [all_buf |-> <<>>, out |-> Append(out, call),
                     panicked |-> FALSE]
               ELSE DecodeLoop(buf, r + got, Append(out, call), under)

InitCodec ==
    /\ ReactorInit
    /\ ChainIdle
    /\ GroupIdle
    /\ frames \in ListsUpTo(Payloads, MaxFrames)
    /\ fed = 0
    /\ all_buf = <<>>
    /\ delivered = <<>>
    /\ last_fires = 0
    /\ panicked = FALSE

\* FirstIntegerLengthFieldDecoder::channel_read with the next k bytes of the
\* stream as its ByteBuf: append to all_buf, then the loop
DecoderChannelRead(k, under) ==
    /\ ~panicked
    /\ fed + k <= Len(Stream)
    /\ LET chunk == SubSeq(Stream, fed + 1, fed + k)
           res == DecodeLoop(all_buf \o chunk, 0, <<>>, under)
       IN /\ all_buf' = res.all_buf
          /\ delivered' = delivered \o res.out
          /\ last_fires' = Len(res.out)
          /\ panicked' = res.panicked
    /\ fed' = fed + k
    /\ UNCHANGED <<reactorVars, chainVars, groupVars, frames>>

NextCodec ==
    \E k \in 1 .. (4 + Len(Hello)) * MaxFrames :
        \E under \in {"panic", "short"} : DecoderChannelRead(k, under)

SpecCodec == InitCodec /\ [][NextCodec]_vars

\* frames that lie wholly within the first n bytes of the stream
CompleteFrames(n) ==
    Cardinality({k \in 1 .. Len(frames) : Len(StreamOf(frames, k)) <= n})

\* C9: after every channel_read, downstream has received exactly the frames
\* completed by the bytes fed so far: p_1, p_2, ... in order, each once, none
\* held back
C9_RoundTrip ==
    /\ Len(delivered) = CompleteFrames(fed)
    /\ \A i \in 1 .. Len(delivered) : delivered[i].payload = frames[i]

\* C31: after every channel_read the accumulator is exactly the bytes received
\* after the frames delivered so far, and no frame has been presented
\* downstream a second time (stated for the runs in which every delivery was
\* made with its whole frame readable)
C31_AccumulatorIsUnconsumed ==
    (\A i \in 1 .. Len(delivered) : delivered[i].avail >= 4 + delivered[i].len) =>
        LET n == IF Len(delivered) < Len(frames)
                 THEN Len(delivered) ELSE Len(frames)
        IN /\ Len(delivered) <= CompleteFrames(fed)
           /\ all_buf = SubSeq(Stream, Len(StreamOf(frames, n)) + 1, fed)

\* C10: the decoder fires only on a complete frame: at every downstream call
\* at least 4 + L bytes were readable, and no call is made while the first
\* frame is still incomplete
C10_FiresOnCompleteFrame ==
    /\ \A i \in 1 .. Len(delivered) :
          delivered[i].avail >= 4 + delivered[i].len
    /\ CompleteFrames(fed) = 0 => delivered = <<>>

(* ===================== EventLoopGroup (SpecGroup) ====================== *)
\* EventLoopGroup::next on the group g: the wrap test, the increment, and
\* group.get(next - 1).unwrap(), which fails when the index is past the end
EventLoopGroupNext(g) ==
    LET wrapped == IF g.next > g.evenetloop_num THEN 0 ELSE g.next
        index == (wrapped + 1) - 1
    IN IF index < g.evenetloop_num
       THEN [g EXCEPT !.next = wrapped + 1, !.calls = @ + 1, !.ret = index]
       ELSE [g EXCEPT !.next = wrapped + 1, !.calls = @ + 1, !.ret = NoLoop,
                      !.failed = TRUE]

InitGroup ==
    /\ ReactorInit
    /\ ChainIdle
    /\ CodecIdle
    /\ groups \in [GroupIds -> {EventLoopGroupNew(n) : n \in 1 .. MaxLoops}]

\* a caller takes the next loop of the group id
GroupNext(id) ==
    /\ ~groups[id].failed
    /\ groups' = [groups EXCEPT ![id] = EventLoopGroupNext(@)]
    /\ UNCHANGED <<reactorVars, chainVars, codecVars>>

NextGroup ==
    \E id \in GroupIds : GroupNext(id)

SpecGroup == InitGroup /\ [][NextGroup]_vars

\* C11: next() never fails, its k-th call (k = 0, 1, ...) returns loop
\* k mod N, and the index it leaves the cursor at is within 0 .. N-1
C11_RoundRobin ==
    \A id \in GroupIds :
        LET g == groups[id]
        IN /\ ~g.failed
           /\ g.calls > 0 =>
                 /\ g.ret = (g.calls - 1) % g.evenetloop_num
                 /\ g.next - 1 \in 0 .. (g.evenetloop_num - 1)

=============================================================================
